---- MODULE Spec2Model ----
(***************************************************************************)
(* Model of the subtitle translation pipeline of SUBe2C:                   *)
(*   src/src/SubE2C.py  process_srt_file, translate_text                   *)
(* Text is modelled as a sequence of one-character strings, so that the    *)
(* splitting, stripping and joining of the code are computed, not assumed. *)
(***************************************************************************)
EXTENDS Integers, Sequences, FiniteSets, TLC

(* ---------------------------------------------------------------------- *)
(* Bounds of the model                                                     *)
(* ---------------------------------------------------------------------- *)
\* longest free-form input content enumerated character by character
MaxLen == 5
\* most sample blocks in a structured input document
MaxBlocks == 2
\* the max_retries argument of translate_text (the code's default is 10)
max_retries == 3

\* the delay argument of translate_text: its default, SubE2C.py line 123
delay == 5

\* most subtitles in the input of translate_subtitles
MaxSubs == 2
\* main.py line 49
gemini_max_retries == 3
\* main.py line 50
retry_delay_first == 5

(* ---------------------------------------------------------------------- *)
(* Characters and strings                                                  *)
(* ---------------------------------------------------------------------- *)
NL == "\n"
SP == " "
\* the characters str.strip() removes, among those the model uses
Whitespace == {NL, SP}
\* characters of the free-form contents
Chars == {"a", NL, SP}

\* a byte that is no valid UTF-8 on its own but is a letter in cp1252
ByteE9 == "E9"
\* a byte that neither UTF-8 nor cp1252 decodes; latin-1 decodes every byte
Byte81 == "81"

\* all sequences over S of length at most n
SeqsUpTo(S, n) == UNION {[1..k -> S] : k \in 0..n}

RECURSIVE LStrip(_)
LStrip(s) ==
    IF s = <<>> THEN s
    ELSE IF Head(s) \in Whitespace THEN LStrip(Tail(s)) ELSE s

RECURSIVE RStrip(_)
RStrip(s) ==
    IF s = <<>> THEN s
    ELSE IF s[Len(s)] \in Whitespace THEN RStrip(SubSeq(s, 1, Len(s) - 1)) ELSE s

\* str.strip()
Strip(s) == RStrip(LStrip(s))

\* first position at or after i that holds no newline (Len(s)+1 if none)
RECURSIVE RunEnd(_, _)
RunEnd(s, i) ==
    IF i > Len(s) THEN i
    ELSE IF s[i] = NL THEN RunEnd(s, i + 1) ELSE i

\* re.split(r'\n\n+', s): cut at every maximal run of two or more newlines
RECURSIVE ReSplitFrom(_, _, _)
ReSplitFrom(s, i, cur) ==
    IF i > Len(s) THEN <<cur>>
    ELSE IF s[i] = NL /\ i + 1 <= Len(s) /\ s[i + 1] = NL
         THEN <<cur>> \o ReSplitFrom(s, RunEnd(s, i), <<>>)
         ELSE ReSplitFrom(s, i + 1, Append(cur, s[i]))

ReSplit(s) == ReSplitFrom(s, 1, <<>>)

\* str.split('\n')
RECURSIVE SplitLinesFrom(_, _, _)
SplitLinesFrom(s, i, cur) ==
    IF i > Len(s) THEN <<cur>>
    ELSE IF s[i] = NL
         THEN <<cur>> \o SplitLinesFrom(s, i + 1, <<>>)
         ELSE SplitLinesFrom(s, i + 1, Append(cur, s[i]))

SplitLines(s) == SplitLinesFrom(s, 1, <<>>)

\* sep.join(parts)
RECURSIVE Join(_, _)
Join(parts, sep) ==
    IF parts = <<>> THEN <<>>
    ELSE IF Len(parts) = 1 THEN parts[1]
    ELSE parts[1] \o sep \o Join(Tail(parts), sep)

\* [block.strip() for block in pieces if block.strip()]
RECURSIVE StripAndFilter(_)
StripAndFilter(pieces) ==
    IF pieces = <<>> THEN <<>>
    ELSE LET b == Strip(Head(pieces))
         IN  IF b # <<>> THEN <<b>> \o StripAndFilter(Tail(pieces))
             ELSE StripAndFilter(Tail(pieces))

\* line 41: the blocks of a decoded content
ParseBlocks(c) == StripAndFilter(ReSplit(Strip(c)))

(* ---------------------------------------------------------------------- *)
(* Inputs                                                                  *)
(* ---------------------------------------------------------------------- *)
\* a well-formed block: index, timing, one text line
BlockOne == <<"1", NL, "t", NL, "h">>
\* a well-formed block whose text has two lines
BlockTwo == <<"2", NL, "u", NL, "h", NL, "w">>
\* a block of two lines only
BlockBad == <<"3", NL, "v">>
SampleBlocks == {BlockOne, BlockBad}

\* documents made of sample blocks, one blank line apart, newline at the end
StructuredDocs ==
    {Join(bs, <<NL, NL>>) \o <<NL>> :
        bs \in UNION {[1..k -> SampleBlocks] : k \in 1..MaxBlocks}}

\* documents with a multi-line text, blank lines around and runs of newlines
MultiLineDocs ==
    {BlockTwo \o <<NL>>,
     <<NL, NL>> \o BlockTwo \o <<NL, NL, NL>> \o BlockBad \o <<NL>>}

\* files holding a byte that UTF-8 rejects
LegacyDocs ==
    {<<"1", NL, "t", NL, ByteE9>>, <<"1", NL, "t", NL, Byte81>>}

\* the bytes of the input file
RawInputs ==
    SeqsUpTo(Chars, MaxLen) \cup StructuredDocs \cup MultiLineDocs \cup LegacyDocs

\* output paths as sequences of path components
OutputPaths == {<<"out.srt">>, <<"Translated", "out.srt">>}

\* texts the provider may return in message.content[0].text
Responses == {<<>>, <<"z">>, <<"z", NL, NL, "z">>}

\* Optional[str]
None == [some |-> FALSE, text |-> <<>>]
Some(t) == [some |-> TRUE, text |-> t]

(* ---------------------------------------------------------------------- *)
(* Decoding, lines 26-38                                                   *)
(* ---------------------------------------------------------------------- *)
encodings == <<"utf-8", "utf-8-sig", "cp1252", "latin-1">>

\* open(..., encoding=enc).read() raises no UnicodeDecodeError
Decodes(enc, bytes) ==
    CASE enc \in {"utf-8", "utf-8-sig"} ->
            \A k \in 1..Len(bytes) : bytes[k] \notin {ByteE9, Byte81}
      [] enc = "cp1252" -> \A k \in 1..Len(bytes) : bytes[k] # Byte81
      [] OTHER -> TRUE

\* the character a byte decodes to
DecodeByte(b) ==
    CASE b = ByteE9 -> "e-acute"
      [] b = Byte81 -> "U+0081"
      [] OTHER -> b

DecodeBytes(bytes) == [k \in 1..Len(bytes) |-> DecodeByte(bytes[k])]

\* index of the first encoding that decodes the bytes, 0 if there is none
RECURSIVE FirstEncodingFrom(_, _)
FirstEncodingFrom(bytes, k) ==
    IF k > Len(encodings) THEN 0
    ELSE IF Decodes(encodings[k], bytes) THEN k
    ELSE FirstEncodingFrom(bytes, k + 1)

\* a variant of FirstEncoding for a loop without the break of line 33
FirstEncoding_NoBreak(bytes) == Len(encodings)

FirstEncoding(bytes) == FirstEncodingFrom(bytes, 1)

(* ---------------------------------------------------------------------- *)
(* The steps of process_srt_file and translate_text as operators           *)
(* ---------------------------------------------------------------------- *)
\* a variant of IsInvalidFormat that lets two-line blocks through
IsInvalidFormat_TwoLines(lines) == Len(lines) < 2

\* line 52
IsInvalidFormat(lines) == Len(lines) < 3

\* line 60
TextContent(lines) == Join(SubSeq(lines, 3, Len(lines)), <<NL>>)

\* a variant of ChooseText with the test of line 68 inverted
ChooseText_Inverted(r, text_content) == IF r # None THEN text_content ELSE r.text

\* lines 68-72: the text that goes into the rebuilt block
ChooseText(r, text_content) == IF r = None THEN text_content ELSE r.text

\* a variant of TranslatedBlock that leaves the timestamp out
TranslatedBlock_NoTimestamp(lines, translated_text) ==
    lines[1] \o <<NL>> \o translated_text

\* line 75
TranslatedBlock(lines, translated_text) ==
    lines[1] \o <<NL>> \o lines[2] \o <<NL>> \o translated_text

\* a variant of MayRetry that is off by one
MayRetry_OneMore(a) == a < max_retries

\* line 162
MayRetry(a) == a < max_retries - 1

\* a variant of SleepTime with the exponential backoff of main.py
SleepTime_Backoff(a) == delay * (2 ^ a)

\* line 163: the time slept before the next attempt
SleepTime(a) == delay

\* a variant of KeepOriginal that forgets the append
KeepOriginal_Forget(tb, block) == tb

\* lines 54 and 85: translated_blocks.append(block)
KeepOriginal(tb, block) == Append(tb, block)

\* a variant of LoopDone that leaves the loop one block early
LoopDone_Early(idx, total_blocks) == idx >= total_blocks

\* line 48: the for loop has no block left
LoopDone(idx, total_blocks) == idx > total_blocks

\* a variant of TotalBlocks that counts one block too many
TotalBlocks_OneMore(bs) == Len(bs) + 1

\* line 43
TotalBlocks(bs) == Len(bs)

\* a variant of NextIndex that steps over a block
NextIndex_Skip(idx) == idx + 2

\* line 48: enumerate(blocks, 1) moves to the next block
NextIndex(idx) == idx + 1

\* a variant of Progress for an index counted from 0
Progress_FromZero(idx, total_blocks) ==
    (2 * 1000 * (idx - 1) + total_blocks) \div (2 * total_blocks)

\* lines 79-80: (i / total_blocks) * 100 printed with one decimal, in tenths of
\* a percent (rounded to the nearest tenth)
Progress(idx, total_blocks) ==
    (2 * 1000 * idx + total_blocks) \div (2 * total_blocks)

\* line 89: os.path.dirname
Dirname(path) == SubSeq(path, 1, Len(path) - 1)

\* a variant of Serialize that joins the blocks with a single newline
Serialize_OneNewline(tb) == Join(tb, <<NL>>) \o <<NL>>

\* line 93
Serialize(tb) == Join(tb, <<NL, NL>>) \o <<NL>>

(* ---------------------------------------------------------------------- *)
(* State                                                                   *)
(* ---------------------------------------------------------------------- *)
VARIABLES
    pc,                 \* position in process_srt_file
    raw,                \* bytes of the file at input_path
    output_path,        \* the output_path argument
    content,            \* decoded content, line 32
    blocks,             \* line 41
    translated_blocks,  \* line 42
    i,                  \* line 48, index of the block the loop is at
    attempt,            \* line 145
    ret,                \* value translate_text returned, line 66
    calls,              \* client.messages.create calls made since the loop reached block i
    sleeps,             \* time.sleep durations of the running translate_text
    trace,              \* per finished block: branch taken, calls, result
    dirs,               \* directories that exist
    outfile,            \* content of the file at output_path, None if absent
    writes,             \* number of times outfile.write ran
    result,             \* return value of process_srt_file
    error,              \* exception caught at line 100
    encoding,           \* line 29, the encoding the content was read with
    call_log,           \* per client.messages.create call, the block it was for
    nsleeps,            \* number of time.sleep calls of the run
    progress,           \* the progress lines printed at line 80
    report,             \* the totals printed at line 97
    g_pc,               \* main.py: position in translate_subtitles
    subs,               \* main.py line 77: the text of every subtitle
    g_orig,             \* the texts as they were read
    g_i,                \* main.py line 79, counted from 1
    g_attempt,          \* main.py line 52
    retry_delay,        \* main.py line 50
    g_kinds,            \* outcome of every generate_content call for subtitle g_i
    g_sleeps,           \* time.sleep durations of the running translate_text
    g_trace,            \* per finished subtitle: calls, sleeps, how it ended
    g_saved             \* main.py line 89: the texts saved, None before

vars == <<pc, raw, output_path, content, blocks, translated_blocks, i, attempt,
          ret, calls, sleeps, trace, dirs, outfile, writes, result, error,
          encoding, call_log, nsleeps, progress, report,
          g_pc, subs, g_orig, g_i, g_attempt, retry_delay, g_kinds, g_sleeps,
          g_trace, g_saved>>

\* the state of main.py
geminiVars == <<g_pc, subs, g_orig, g_i, g_attempt, retry_delay, g_kinds, g_sleeps,
                g_trace, g_saved>>

\* what no step of process_srt_file changes
envVars == <<raw, output_path, geminiVars>>
fsVars == <<dirs, outfile, writes>>
callVars == <<attempt, ret, calls, sleeps>>
logVars == <<encoding, call_log, nsleeps, progress, report>>

\* translate_subtitles is not running
GeminiIdle ==
    /\ g_pc = "idle"
    /\ subs = <<>>
    /\ g_orig = <<>>
    /\ g_i = 1
    /\ g_attempt = 0
    /\ retry_delay = 0
    /\ g_kinds = <<>>
    /\ g_sleeps = <<>>
    /\ g_trace = <<>>
    /\ g_saved = None

Init ==
    /\ GeminiIdle
    /\ pc = "decode"
    /\ raw \in RawInputs
    /\ output_path \in OutputPaths
    /\ content = None
    /\ blocks = <<>>
    /\ translated_blocks = <<>>
    /\ i = 1
    /\ attempt = 0
    /\ ret = None
    /\ calls = 0
    /\ sleeps = <<>>
    /\ trace = <<>>
    /\ dirs = {}
    /\ outfile = None
    /\ writes = 0
    /\ result = "running"
    /\ error = "none"
    /\ encoding = "none"
    /\ call_log = <<>>
    /\ nsleeps = 0
    /\ progress = <<>>
    /\ report = <<>>

\* lines 100-103: the outer handler
Fail(e) ==
    /\ pc' = "failed"
    /\ result' = "False"
    /\ error' = e

\* lines 26-38
Decode ==
    /\ pc = "decode"
    /\ LET k == FirstEncoding(raw)
       IN  IF k = 0
           THEN /\ Fail("ValueError")
                /\ UNCHANGED <<content, encoding>>
           ELSE /\ content' = Some(DecodeBytes(raw))
                /\ encoding' = encodings[k]
                /\ pc' = "parse"
                /\ UNCHANGED <<result, error>>
    /\ UNCHANGED <<envVars, blocks, translated_blocks, i, callVars, trace, fsVars,
                   call_log, nsleeps, progress, report>>

\* lines 41-46
Parse ==
    /\ pc = "parse"
    /\ blocks' = ParseBlocks(content.text)
    /\ translated_blocks' = <<>>
    /\ i' = 1
    /\ pc' = "loop"
    /\ UNCHANGED <<envVars, content, callVars, trace, fsVars, result, error, logVars>>

InLoop == pc = "loop" /\ ~LoopDone(i, Len(blocks))

\* lines 51-55: a block of fewer than 3 lines is kept as it is
SkipBlock ==
    /\ InLoop
    /\ IsInvalidFormat(SplitLines(blocks[i]))
    /\ translated_blocks' = KeepOriginal(translated_blocks, blocks[i])
    /\ trace' = Append(trace, [via |-> "skip", calls |-> calls, ret |-> None])
    /\ i' = NextIndex(i)
    /\ calls' = 0
    /\ UNCHANGED <<pc, envVars, content, blocks, attempt, ret, sleeps, fsVars,
                   result, error, logVars>>

\* lines 57-66 and 139-145: translate_text is entered
BeginTranslate ==
    /\ InLoop
    /\ ~IsInvalidFormat(SplitLines(blocks[i]))
    /\ pc' = "translating"
    /\ attempt' = 0
    /\ sleeps' = <<>>
    /\ ret' = None
    /\ UNCHANGED <<envVars, content, blocks, translated_blocks, i, calls, trace,
                   fsVars, result, error, logVars>>

\* lines 147-158: the call returns a message with text r
ProviderSuccess ==
    /\ pc = "translating"
    /\ \E r \in Responses : ret' = Some(r)
    /\ calls' = calls + 1
    /\ call_log' = Append(call_log, i)
    /\ pc' = "returned"
    /\ UNCHANGED <<envVars, content, blocks, translated_blocks, i, attempt, sleeps,
                   trace, fsVars, result, error, encoding, nsleeps, progress,
                   report>>

\* lines 160-167: the call (or reading message.content[0]) raises
ProviderError ==
    /\ pc = "translating"
    /\ calls' = calls + 1
    /\ call_log' = Append(call_log, i)
    /\ IF MayRetry(attempt)
       THEN /\ sleeps' = Append(sleeps, SleepTime(attempt))
            /\ nsleeps' = nsleeps + 1
            /\ attempt' = attempt + 1
            /\ UNCHANGED <<pc, ret>>
       ELSE /\ ret' = None
            /\ pc' = "returned"
            /\ UNCHANGED <<sleeps, nsleeps, attempt>>
    /\ UNCHANGED <<envVars, content, blocks, translated_blocks, i, trace, fsVars,
                   result, error, encoding, progress, report>>

\* lines 68-80: the block is rebuilt and appended
FinishBlock ==
    /\ pc = "returned"
    /\ LET lines == SplitLines(blocks[i])
           translated_text == ChooseText(ret, TextContent(lines))
       IN  translated_blocks' =
               Append(translated_blocks, TranslatedBlock(lines, translated_text))
    /\ trace' = Append(trace, [via |-> IF ret = None THEN "none" ELSE "text",
                               calls |-> calls, ret |-> ret])
    /\ progress' = Append(progress, Progress(i, TotalBlocks(blocks)))
    /\ i' = NextIndex(i)
    /\ calls' = 0
    /\ pc' = "loop"
    /\ UNCHANGED <<envVars, content, blocks, attempt, ret, sleeps, fsVars,
                   result, error, encoding, call_log, nsleeps, report>>

\* lines 82-86: an Exception raised by line 63 or line 72 (print of a text the
\* console cannot encode) is caught and the original block is kept
BlockRaise ==
    /\ \/ /\ InLoop
          /\ ~IsInvalidFormat(SplitLines(blocks[i]))
          /\ trace' = Append(trace, [via |-> "except", calls |-> calls, ret |-> None])
       \/ /\ pc = "returned"
          /\ ret # None
          /\ trace' = Append(trace, [via |-> "except", calls |-> calls, ret |-> ret])
    /\ translated_blocks' = KeepOriginal(translated_blocks, blocks[i])
    /\ i' = NextIndex(i)
    /\ calls' = 0
    /\ pc' = "loop"
    /\ UNCHANGED <<envVars, content, blocks, attempt, ret, sleeps, fsVars,
                   result, error, logVars>>

\* a KeyboardInterrupt during the loop: no handler of process_srt_file catches it
Interrupt ==
    /\ \/ InLoop
       \/ pc \in {"translating", "returned"}
    /\ pc' = "interrupted"
    /\ result' = "raised"
    /\ error' = "KeyboardInterrupt"
    /\ UNCHANGED <<envVars, content, blocks, translated_blocks, i, callVars, trace,
                   fsVars, logVars>>

AtWriteStep == pc = "loop" /\ LoopDone(i, Len(blocks))

\* line 89: os.makedirs(os.path.dirname(output_path), exist_ok=True);
\* os.makedirs('') raises FileNotFoundError
MakeDirs ==
    /\ AtWriteStep
    /\ IF Dirname(output_path) = <<>>
       THEN /\ Fail("FileNotFoundError")
            /\ UNCHANGED dirs
       ELSE /\ dirs' = dirs \cup {Dirname(output_path)}
            /\ pc' = "write"
            /\ UNCHANGED <<result, error>>
    /\ UNCHANGED <<envVars, content, blocks, translated_blocks, i, callVars, trace,
                   outfile, writes, logVars>>

\* line 89: the file system refuses to create the directory
MakeDirsDenied ==
    /\ AtWriteStep
    /\ Dirname(output_path) # <<>>
    /\ Fail("PermissionError")
    /\ UNCHANGED <<envVars, content, blocks, translated_blocks, i, callVars, trace,
                   fsVars, logVars>>

\* lines 92-98
WriteOutput ==
    /\ pc = "write"
    /\ outfile' = Some(Serialize(translated_blocks))
    /\ writes' = writes + 1
    /\ pc' = "done"
    /\ result' = "True"
    /\ report' = Append(report, [total_blocks |-> TotalBlocks(blocks)])
    /\ UNCHANGED <<envVars, content, blocks, translated_blocks, i, callVars, trace,
                   dirs, error, encoding, call_log, nsleeps, progress>>

\* line 92: open(output_path, 'w') raises
WriteDenied ==
    /\ pc = "write"
    /\ Fail("PermissionError")
    /\ UNCHANGED <<envVars, content, blocks, translated_blocks, i, callVars, trace,
                   fsVars, logVars>>

Next ==
    \/ Decode
    \/ Parse
    \/ SkipBlock
    \/ BeginTranslate
    \/ ProviderSuccess
    \/ ProviderError
    \/ FinishBlock
    \/ BlockRaise
    \/ Interrupt
    \/ MakeDirs
    \/ MakeDirsDenied
    \/ WriteOutput
    \/ WriteDenied

Spec == Init /\ [][Next]_vars

(* ---------------------------------------------------------------------- *)
(* main.py: translate_subtitles and translate_text with the Gemini model   *)
(* ---------------------------------------------------------------------- *)
\* texts of the subtitles of the input file
SubTexts == {<<"h">>, <<"h", NL, "w">>}

\* texts response.text may hold
GeminiResponses == {<<>>, <<"z">>}

\* exceptions other than a GoogleAPIError with code 429
OtherErrors == {"GoogleAPIError", "Exception"}

\* main.py line 58
GeminiMayRetry(a) == a < gemini_max_retries - 1

\* a variant of NextRetryDelay that keeps the delay
NextRetryDelay_Fixed(d) == d

\* main.py line 61
NextRetryDelay(d) == d * 2

\* main.py line 82
AssignText(texts, idx, t) == [texts EXCEPT ![idx] = t]

\* process_srt_file is not running
PipelineIdle ==
    /\ pc = "idle"
    /\ raw = <<>>
    /\ output_path = <<"out.srt">>
    /\ content = None
    /\ blocks = <<>>
    /\ translated_blocks = <<>>
    /\ i = 1
    /\ attempt = 0
    /\ ret = None
    /\ calls = 0
    /\ sleeps = <<>>
    /\ trace = <<>>
    /\ dirs = {}
    /\ outfile = None
    /\ writes = 0
    /\ result = "running"
    /\ error = "none"
    /\ encoding = "none"
    /\ call_log = <<>>
    /\ nsleeps = 0
    /\ progress = <<>>
    /\ report = <<>>

pipelineVars == <<pc, raw, output_path, content, blocks, translated_blocks, i,
                  attempt, ret, calls, sleeps, trace, dirs, outfile, writes, result,
                  error, encoding, call_log, nsleeps, progress, report>>

\* main.py lines 74-77: the file has been opened
GeminiInit ==
    /\ PipelineIdle
    /\ g_pc = "loop"
    /\ g_orig \in UNION {[1..n -> SubTexts] : n \in 1..MaxSubs}
    /\ subs = g_orig
    /\ g_i = 1
    /\ g_attempt = 0
    /\ retry_delay = 0
    /\ g_kinds = <<>>
    /\ g_sleeps = <<>>
    /\ g_trace = <<>>
    /\ g_saved = None

\* main.py lines 79-81 and 49-52: translate_text is entered
GeminiBegin ==
    /\ g_pc = "loop"
    /\ g_i <= Len(subs)
    /\ g_pc' = "calling"
    /\ g_attempt' = 0
    /\ retry_delay' = retry_delay_first
    /\ g_kinds' = <<>>
    /\ g_sleeps' = <<>>
    /\ UNCHANGED <<pipelineVars, subs, g_orig, g_i, g_trace, g_saved>>

\* main.py lines 54-55 and 82-84: the call returns, the text is replaced
GeminiSuccess ==
    /\ g_pc = "calling"
    /\ \E r \in GeminiResponses :
          /\ subs' = AssignText(subs, g_i, r)
          /\ g_trace' = Append(g_trace, [kinds |-> Append(g_kinds, "ok"),
                                         sleeps |-> g_sleeps,
                                         raised |-> FALSE,
                                         text |-> r])
    /\ g_kinds' = Append(g_kinds, "ok")
    /\ g_i' = g_i + 1
    /\ g_pc' = "loop"
    /\ UNCHANGED <<pipelineVars, g_orig, g_attempt, retry_delay, g_sleeps, g_saved>>

\* main.py lines 56-64 and 85-87: the call raises a GoogleAPIError of code 429
GeminiRateLimit ==
    /\ g_pc = "calling"
    /\ g_kinds' = Append(g_kinds, "429")
    /\ IF GeminiMayRetry(g_attempt)
       THEN /\ g_sleeps' = Append(g_sleeps, retry_delay)
            /\ retry_delay' = NextRetryDelay(retry_delay)
            /\ g_attempt' = g_attempt + 1
            /\ UNCHANGED <<g_pc, g_i, g_trace>>
       ELSE /\ g_trace' = Append(g_trace, [kinds |-> Append(g_kinds, "429"),
                                           sleeps |-> g_sleeps,
                                           raised |-> TRUE,
                                           text |-> <<>>])
            /\ g_i' = g_i + 1
            /\ g_pc' = "loop"
            /\ UNCHANGED <<g_sleeps, retry_delay, g_attempt>>
    /\ UNCHANGED <<pipelineVars, subs, g_orig, g_saved>>

\* main.py lines 65-70 and 85-87: any other exception is raised to
\* translate_subtitles, which logs it and goes on
GeminiOtherError ==
    /\ g_pc = "calling"
    /\ \E e \in OtherErrors :
          /\ g_kinds' = Append(g_kinds, e)
          /\ g_trace' = Append(g_trace, [kinds |-> Append(g_kinds, e),
                                         sleeps |-> g_sleeps,
                                         raised |-> TRUE,
                                         text |-> <<>>])
    /\ g_i' = g_i + 1
    /\ g_pc' = "loop"
    /\ UNCHANGED <<pipelineVars, subs, g_orig, g_attempt, retry_delay, g_sleeps,
                   g_saved>>

\* main.py line 89
GeminiSave ==
    /\ g_pc = "loop"
    /\ g_i > Len(subs)
    /\ g_saved' = Some(subs)
    /\ g_pc' = "done"
    /\ UNCHANGED <<pipelineVars, subs, g_orig, g_i, g_attempt, retry_delay, g_kinds,
                   g_sleeps, g_trace>>

GeminiNext ==
    \/ GeminiBegin
    \/ GeminiSuccess
    \/ GeminiRateLimit
    \/ GeminiOtherError
    \/ GeminiSave

GeminiSpec == GeminiInit /\ [][GeminiNext]_vars


(* ---------------------------------------------------------------------- *)
(* Vocabulary of the claims                                                *)
(* ---------------------------------------------------------------------- *)
\* a block of at least three lines
WellFormed(b) == Len(SplitLines(b)) >= 3

\* the index line and the timing line of a block, each with its newline
HeaderOf(b) == SplitLines(b)[1] \o <<NL>> \o SplitLines(b)[2] \o <<NL>>

\* what follows the header
TextOf(b) == SubSeq(b, Len(HeaderOf(b)) + 1, Len(b))

IsPrefix(p, s) == Len(p) <= Len(s) /\ SubSeq(s, 1, Len(p)) = p

\* line 89 has been reached
ReachedWriteStep ==
    \/ pc = "loop" /\ i > Len(blocks)
    \/ pc \in {"write", "done"}
    \/ pc = "failed" /\ error # "ValueError"

Finished == 1..Len(trace)

(* ---------------------------------------------------------------------- *)
(* C1: when the write step is reached there are as many output blocks as   *)
(* parsed blocks, and output block j comes from input block j: it is the   *)
(* input block itself or starts with its index and timing lines.           *)
(* ---------------------------------------------------------------------- *)
C1_BlockCountKept ==
    ReachedWriteStep =>
        /\ Len(translated_blocks) = Len(blocks)
        /\ \A j \in 1..Len(blocks) :
              \/ translated_blocks[j] = blocks[j]
              \/ /\ WellFormed(blocks[j])
                 /\ IsPrefix(HeaderOf(blocks[j]), translated_blocks[j])

C1_Witness ==
    /\ pc = "write"
    /\ Len(blocks) = 2
    /\ trace[1].via = "except"
    /\ trace[2].via = "none"

(* ---------------------------------------------------------------------- *)
(* C2: the first and the second line of the output block of a well-formed  *)
(* block are the first and the second line of the input block.             *)
(* ---------------------------------------------------------------------- *)
C2_IndexTimingKept ==
    \A j \in 1..Len(translated_blocks) :
        WellFormed(blocks[j]) =>
            /\ Len(SplitLines(translated_blocks[j])) >= 2
            /\ SplitLines(translated_blocks[j])[1] = SplitLines(blocks[j])[1]
            /\ SplitLines(translated_blocks[j])[2] = SplitLines(blocks[j])[2]

C2_Witness ==
    /\ Len(translated_blocks) >= 1
    /\ WellFormed(blocks[1])
    /\ trace[1].via = "text"
    /\ translated_blocks[1] # blocks[1]

(* ---------------------------------------------------------------------- *)
(* C3: if every provider attempt fails for every block, every well-formed  *)
(* block keeps its text and the run writes the output and returns True     *)
(* (the file system not refusing).                                         *)
(* ---------------------------------------------------------------------- *)
ProviderAlwaysFailed ==
    /\ \A j \in Finished : trace[j].ret = None
    /\ \E j \in Finished : trace[j].calls = max_retries

C3_AlwaysFailingProvider ==
    (pc \in {"done", "failed"} /\ error # "PermissionError" /\ ProviderAlwaysFailed) =>
        /\ \A j \in 1..Len(blocks) :
              WellFormed(blocks[j]) => TextOf(translated_blocks[j]) = TextOf(blocks[j])
        /\ result = "True"
        /\ outfile # None

(* ---------------------------------------------------------------------- *)
(* C4: a block of fewer than 3 lines causes no provider call and is in the *)
(* output as it was parsed.                                                *)
(* ---------------------------------------------------------------------- *)
C4_MalformedUntouched ==
    /\ \A j \in Finished :
          ~WellFormed(blocks[j]) =>
              /\ trace[j].calls = 0
              /\ trace[j].via = "skip"
              /\ translated_blocks[j] = blocks[j]
    /\ (pc \in {"translating", "returned"} \/ calls > 0) => WellFormed(blocks[i])

C4_Witness ==
    /\ Len(trace) = 2
    /\ trace[1].via = "text"
    /\ trace[1].calls > 0
    /\ ~WellFormed(blocks[2])
    /\ trace[2].via = "skip"

C6_RetryLimit ==
    /\ calls <= max_retries
    /\ pc = "translating" => (calls = attempt /\ attempt < max_retries)
    /\ (pc = "returned" /\ ret # None) => calls = attempt + 1
    /\ (pc = "returned" /\ ret = None) => calls = max_retries
    /\ \A j \in Finished :
          /\ trace[j].calls <= max_retries
          /\ trace[j].via = "none" => trace[j].calls = max_retries
          /\ trace[j].via = "except" => (trace[j].calls = 0 \/ trace[j].ret # None)

C6_Witness ==
    /\ pc = "returned"
    /\ ret = None
    /\ calls = max_retries

(* ---------------------------------------------------------------------- *)
(* C7: every failed attempt but the last is followed by one sleep of delay *)
(* seconds, the same for every retry; k failures and then a success cost k *)
(* sleeps; the last failure and a success are followed by no sleep.        *)
(* ---------------------------------------------------------------------- *)
C7_FixedDelay ==
    /\ \A k \in 1..Len(sleeps) : sleeps[k] = delay
    /\ pc = "translating" => Len(sleeps) = calls
    /\ (pc = "returned" /\ ret # None) => Len(sleeps) = calls - 1
    /\ (pc = "returned" /\ ret = None) => Len(sleeps) = max_retries - 1

C7_Witness ==
    /\ pc = "returned"
    /\ ret # None
    /\ calls = 3
    /\ sleeps = <<delay, delay>>

(* ---------------------------------------------------------------------- *)
(* C8: a well-formed block for which the provider delivered no non-empty   *)
(* text keeps its original text.                                           *)
(* ---------------------------------------------------------------------- *)
C8_EmptyIsNoTranslation ==
    \A j \in Finished :
        (WellFormed(blocks[j]) /\ (trace[j].ret = None \/ trace[j].ret.text = <<>>)) =>
            translated_blocks[j] = blocks[j]

(* ---------------------------------------------------------------------- *)
(* C9: the output is written at most once and only when every block is     *)
(* finished; an interrupted or failed run has written nothing.             *)
(* ---------------------------------------------------------------------- *)
C9_WriteOnceAtEnd ==
    /\ writes <= 1
    /\ (outfile # None \/ writes > 0) =>
          /\ pc = "done"
          /\ writes = 1
          /\ Len(trace) = Len(blocks)
          /\ Len(translated_blocks) = Len(blocks)
    /\ pc \in {"interrupted", "failed"} => (outfile = None /\ writes = 0)

C9_Witness ==
    /\ pc = "done"
    /\ writes = 1
    /\ outfile # None
    /\ Len(blocks) = 2

(* ---------------------------------------------------------------------- *)
(* C10: process_srt_file returns False only when no encoding decodes the   *)
(* input or the file system refuses the directory or the file; a bare file *)
(* name as output path does not make it fail.                              *)
(* ---------------------------------------------------------------------- *)
C10_FailsOnlyOnDecodeOrFilesystem ==
    result = "False" => error \in {"ValueError", "PermissionError"}

(* ---------------------------------------------------------------------- *)
(* C11: at the end of a run that produced output a summary is printed; as  *)
(* claimed it holds the three counts translated, fallback and skipped,     *)
(* which add up to the number of parsed blocks.                            *)
(* ---------------------------------------------------------------------- *)
CountVia(S) == Cardinality({j \in Finished : trace[j].via \in S})

C11_SummaryOfThreeCounts ==
    pc = "done" =>
        /\ Len(report) = 1
        /\ DOMAIN report[1] = {"translated", "fallback", "skipped"}
        /\ report[1].translated + report[1].fallback + report[1].skipped = Len(blocks)

\* C11 as amended: the run that produced output prints the total number of
\* parsed blocks only; every block ended as translated, fallback or skipped,
\* and the three classes add up to that total.
C11_TotalOnly ==
    /\ pc = "done" =>
          /\ report = <<[total_blocks |-> Len(blocks)]>>
          /\ CountVia({"text"}) + CountVia({"none", "except"}) + CountVia({"skip"})
                = report[1].total_blocks
    /\ pc # "done" => report = <<>>

C11_Witness ==
    /\ pc = "done"
    /\ Len(trace) = 2
    /\ trace[1].via = "text"
    /\ trace[2].via = "none"
    /\ report[1].total_blocks = 2

(* ---------------------------------------------------------------------- *)
(* C12: parsing a content, serializing the blocks and parsing again gives  *)
(* the blocks of the first parse.                                          *)
(* ---------------------------------------------------------------------- *)
C12_RoundTrip ==
    pc = "loop" => ParseBlocks(Serialize(blocks)) = blocks

C12_Witness ==
    /\ pc = "loop"
    /\ Len(blocks) = 2
    /\ content.text # Serialize(blocks)
    /\ ParseBlocks(Serialize(blocks)) = blocks

(* ---------------------------------------------------------------------- *)
(* C13: the encodings are tried in the order utf-8, utf-8-sig, cp1252,     *)
(* latin-1 and the first that decodes is used; if none decodes the run     *)
(* fails with no provider call and no output.                              *)
(* ---------------------------------------------------------------------- *)
C13_FirstDecodingEncoding ==
    /\ encodings = <<"utf-8", "utf-8-sig", "cp1252", "latin-1">>
    /\ (pc # "decode" /\ error # "ValueError") =>
          \E k \in 1..Len(encodings) :
              /\ encoding = encodings[k]
              /\ Decodes(encodings[k], raw)
              /\ \A m \in 1..(k - 1) : ~Decodes(encodings[m], raw)
    /\ error = "ValueError" =>
          /\ \A k \in 1..Len(encodings) : ~Decodes(encodings[k], raw)
          /\ result = "False"
          /\ call_log = <<>>
          /\ outfile = None
    /\ (pc # "decode" /\ \A k \in 1..Len(encodings) : ~Decodes(encodings[k], raw)) =>
          error = "ValueError"

C13_Witness ==
    /\ pc = "parse"
    /\ encoding = "cp1252"
    /\ ~Decodes("utf-8", raw)
    /\ ~Decodes("utf-8-sig", raw)

(* ---------------------------------------------------------------------- *)
(* C14: provider calls are made one block after the other in document      *)
(* order: the calls of a block all precede the calls of the next one, and  *)
(* a block is begun only when every earlier block is finished.             *)
(* ---------------------------------------------------------------------- *)
C14_SequentialInOrder ==
    /\ \A k \in 1..(Len(call_log) - 1) : call_log[k] <= call_log[k + 1]
    /\ \A k \in 1..Len(call_log) :
          \/ call_log[k] <= Len(trace)
          \/ /\ call_log[k] = Len(trace) + 1
             /\ call_log[k] = i
             /\ pc \in {"translating", "returned", "interrupted"}
    /\ pc \in {"loop", "translating", "returned"} => Len(trace) = i - 1
    /\ pc \in {"translating", "returned"} => i <= Len(blocks)

C14_Witness ==
    /\ pc = "returned"
    /\ call_log = <<1, 1, 1, 2>>

(* ---------------------------------------------------------------------- *)
(* C15: a progress line is printed for every block whatever its outcome,   *)
(* so N blocks give N progress lines, the last one 100%.                   *)
(* ---------------------------------------------------------------------- *)
C15_ProgressForEveryBlock ==
    ReachedWriteStep =>
        /\ Len(progress) = Len(blocks)
        /\ Len(blocks) > 0 => progress[Len(progress)] = 1000

\* blocks that went through lines 75-80
Rebuilt == {j \in Finished : trace[j].via \in {"text", "none"}}

\* C15 as amended: a progress line is printed only for a block rebuilt at
\* lines 75-80 (translated, or kept after a None result), in block order, with
\* the percentage of its index; a skipped block and a block whose processing
\* raised print none.
C15_ProgressForRebuiltBlocks ==
    /\ Len(progress) = Cardinality(Rebuilt)
    /\ \A j \in Rebuilt :
          LET k == Cardinality({m \in Rebuilt : m <= j})
              t == progress[k] * Len(blocks)
          IN  /\ 2 * (t - 1000 * j) <= Len(blocks)
              /\ 2 * (1000 * j - t) <= Len(blocks)

C15_Witness ==
    /\ ReachedWriteStep
    /\ Len(blocks) = 2
    /\ trace[1].via = "text"
    /\ trace[2].via = "skip"
    /\ progress = <<500>>

(* ---------------------------------------------------------------------- *)
(* C16: an empty or whitespace-only content gives no block, no provider    *)
(* call, and a run that succeeds and writes the empty serialization (the   *)
(* file system not refusing).                                              *)
(* ---------------------------------------------------------------------- *)
C16_EmptyInput ==
    (pc \in {"done", "failed"} /\ error # "PermissionError" /\ content # None
        /\ Strip(content.text) = <<>>) =>
        /\ blocks = <<>>
        /\ call_log = <<>>
        /\ result = "True"
        /\ outfile = Some(<<NL>>)

(* ---------------------------------------------------------------------- *)
(* C17: translate_text of main.py makes at most 3 calls for a text; only a *)
(* 429 with attempts left is retried, after 5 and then 10 seconds; any     *)
(* other error and a 429 on the third attempt are raised, and              *)
(* translate_subtitles then keeps the original text and goes on.           *)
(* ---------------------------------------------------------------------- *)
C17_GeminiBackoff ==
    /\ Len(g_kinds) <= 3
    /\ g_pc = "calling" =>
          /\ \A k \in 1..Len(g_kinds) : g_kinds[k] = "429"
          /\ Len(g_kinds) < 3
          /\ g_sleeps = SubSeq(<<5, 10>>, 1, Len(g_kinds))
    /\ \A j \in 1..Len(g_trace) :
          LET t == g_trace[j]
              n == Len(t.kinds)
          IN  /\ n >= 1 /\ n <= 3
              /\ \A k \in 1..(n - 1) : t.kinds[k] = "429"
              /\ t.sleeps = SubSeq(<<5, 10>>, 1, n - 1)
              /\ t.raised <=> t.kinds[n] # "ok"
              /\ t.kinds[n] = "429" => n = 3
              /\ t.raised => subs[j] = g_orig[j]
              /\ ~t.raised => subs[j] = t.text
    /\ g_pc = "loop" => Len(g_trace) = g_i - 1
    /\ g_pc = "done" => (Len(g_trace) = Len(g_orig) /\ g_saved = Some(subs))

C17_Witness ==
    /\ g_pc = "done"
    /\ Len(g_trace) = 2
    /\ g_trace[1].kinds = <<"429", "429", "429">>
    /\ g_trace[1].sleeps = <<5, 10>>
    /\ subs[1] = g_orig[1]
    /\ g_trace[2].kinds = <<"429", "ok">>
    /\ subs[2] = <<"z">>

(* ---------------------------------------------------------------------- *)
(* C18: every finished well-formed block got at least 1 and at most        *)
(* max_retries provider calls.                                             *)
(* ---------------------------------------------------------------------- *)
C18_OneToMaxCalls ==
    \A j \in Finished :
        WellFormed(blocks[j]) =>
            (trace[j].calls >= 1 /\ trace[j].calls <= max_retries)

Terminated == pc \in {"done", "failed", "interrupted"}

\* well-formed blocks among the blocks the loop has reached
WellFormedReached ==
    Cardinality({j \in 1..Len(blocks) : j <= i /\ WellFormed(blocks[j])})

C18_Bounds ==
    /\ \A j \in Finished :
          /\ trace[j].calls <= max_retries
          /\ (WellFormed(blocks[j]) /\ trace[j].via \in {"text", "none"}) =>
                trace[j].calls >= 1
          /\ trace[j].calls = 0 => trace[j].via \in {"skip", "except"}
    /\ Len(call_log) <= WellFormedReached * max_retries
    /\ nsleeps <= WellFormedReached * (max_retries - 1)

\* steps one block can take: entering translate_text, max_retries calls, the
\* rebuilding of the block
StepsPerBlock == max_retries + 2

\* an upper bound of the number of steps the run can still take
StepsLeft ==
    CASE pc = "decode" -> 4 + Len(raw) * StepsPerBlock
      [] pc = "parse" -> 3 + Len(raw) * StepsPerBlock
      [] pc = "loop" -> 2 + (Len(blocks) + 1 - i) * StepsPerBlock
      [] pc = "translating" ->
            3 + (Len(blocks) - i) * StepsPerBlock + (max_retries - attempt)
      [] pc = "returned" -> 3 + (Len(blocks) - i) * StepsPerBlock
      [] pc = "write" -> 1
      [] OTHER -> 0

\* C18 as amended: the run terminates (every step lowers StepsLeft, which is
\* never negative, and the run is never stuck before its end); a well-formed
\* block gets at most max_retries provider calls, and at least 1 unless its
\* processing raised before the call; the run makes at most (well-formed
\* blocks) x max_retries calls and (well-formed blocks) x (max_retries - 1)
\* sleeps.
C18_TerminatesWithinBounds ==
    /\ []C18_Bounds
    /\ [](StepsLeft >= 0 /\ (Terminated <=> StepsLeft = 0))
    /\ [](~Terminated => ENABLED Next)
    /\ [][StepsLeft' < StepsLeft]_vars

C18_Witness ==
    /\ pc = "done"
    /\ Len(blocks) = 2
    /\ Len(call_log) = 2 * max_retries
    /\ nsleeps = 2 * (max_retries - 1)

(* ---------------------------------------------------------------------- *)
(* C19: the written output, parsed again, has as many blocks as the input  *)
(* and every well-formed block has its index and timing lines.             *)
(* ---------------------------------------------------------------------- *)
C19_OutputReparses ==
    pc = "done" =>
        LET out == ParseBlocks(outfile.text)
        IN  /\ Len(out) = Len(blocks)
            /\ \A j \in 1..Len(blocks) :
                  WellFormed(blocks[j]) =>
                      /\ Len(SplitLines(out[j])) >= 2
                      /\ SplitLines(out[j])[1] = SplitLines(blocks[j])[1]
                      /\ SplitLines(out[j])[2] = SplitLines(blocks[j])[2]

====
